---- MODULE Spec2Model ----
(***************************************************************************)
(* Model of the recursive research orchestrator of deep-research-agent:    *)
(* src/src/deep_research.py (generate_serp_queries, process_serp_result,   *)
(* deep_research, process_single_query), the structured-output dispatch of *)
(* src/src/ai_providers.py and the throttled search of                     *)
(* src/src/firecrawl_client.py.                                            *)
(*                                                                         *)
(* One asyncio event loop runs the main task (the top-level deep_research  *)
(* call) and one task per branch (process_single_query, wrapped by         *)
(* asyncio.gather).  A task keeps the processor until it reaches an await  *)
(* that really suspends: the throttler's sleep, the HTTP request, or the   *)
(* gather of its sub-branches.  `running' holds the task that owns the     *)
(* processor.  An invocation of deep_research is named by the path of      *)
(* branch indices that leads to it; the branch that made the recursive     *)
(* call has the same path.                                                 *)
(*                                                                         *)
(* Spec and LiveSpec are a call of deep_research as a library function;    *)
(* MainSpec is a run of the command line of src/main.py; ReportSpec is a   *)
(* call of write_final_report or write_final_answer.                       *)
(***************************************************************************)
EXTENDS Naturals, Sequences, FiniteSets, TLC

\* ---------------------------------------------------------------- bounds
MaxBreadth == 3
MaxDepth == 2
MaxWork == 4
MaxPrior == 1
MaxLearn == 1
MaxResults == 1
MaxUrls == 2
MaxBody == 2

\* ------------------------------------------------------------- constants
DefaultConcurrencyLimit == 2
NumLearnings == 3

LearningPool == {"l1"}
UrlPool == {"u1"}
Providers == {"openai", "gemini"}

\* ------------------------------------------------------------- utilities
Range(s) == {s[i] : i \in 1..Len(s)}

SeqsUpTo(S, n) == UNION {[1..k -> S] : k \in 0..n}

Max(a, b) == IF a >= b THEN a ELSE b

Min(a, b) == IF a <= b THEN a ELSE b

NoDuplicates(s) == \A i, j \in 1..Len(s) : s[i] = s[j] => i = j

\* Paths of branch indices: the root invocation is <<>>.  A path of length k
\* through branch i belongs to a run of depth >= k and breadth >= i.
Nodes ==
    {p \in UNION {[1..k -> 1..MaxBreadth] : k \in 0..MaxDepth} :
        \A i \in 1..Len(p) : p[i] * Len(p) <= MaxWork}

Root == <<>>

Parent(p) == SubSeq(p, 1, Len(p) - 1)

Child(p, i) == Append(p, i)

InDomain(p, i) == Append(p, i) \in Nodes

\* Mutant: the slice [:num_queries] is dropped.
TakeAll(s, n) == s

\* Mutant: the slice keeps the last num_queries items ([-num_queries:]).
TakeLast(s, n) == SubSeq(s, Len(s) - Min(n, Len(s)) + 1, Len(s))

Take(s, n) == SubSeq(s, 1, Min(n, Len(s)))

\* Mutant: the list is built without removing repeated values.
ListWithRepeats(S) ==
    {s \in UNION {[1..k -> S] : k \in Cardinality(S)..(Cardinality(S) + 1)} :
        Range(s) = S}

\* list(set(...)): every element once, in an order the build does not fix.
ListOfSet(S) == {s \in [1..Cardinality(S) -> S] : Range(s) = S}

\* ------------------------------------------- language-model collaborator
\* A backend reply: the provider call failed (API error, unparsable JSON),
\* or it produced a JSON object.
BackendReplies(Objects) == [failed : BOOLEAN, object : Objects]

\* No OPENAI_KEY and no GEMINI_KEY: get_provider raises ValueError (line 47).
NoProvider == "none"

\* os.getenv("AI_PROVIDER", "").lower(): unset, a provider's name, or any
\* other text.
Preferences == {"", "openai", "gemini", "other"}

\* The environment of an AIProvider: the preference, and which clients
\* __init__ created (openai_client when OPENAI_KEY is set, gemini_model when
\* the library is importable and GEMINI_KEY is set).
Configs == [preference : Preferences, openai_client : BOOLEAN, gemini_model : BOOLEAN]

\* Mutant: get_provider only auto-detects.
GetProviderAuto(preference, openai_client, gemini_model) ==
    IF gemini_model THEN "gemini"
    ELSE IF openai_client THEN "openai"
    ELSE NoProvider

\* AIProvider.get_provider: the preference when its client exists, then
\* auto-detection with Gemini first; NoProvider stands for the ValueError.
GetProvider(preference, openai_client, gemini_model) ==
    IF preference = "gemini" /\ gemini_model THEN "gemini"
    ELSE IF preference = "openai" /\ openai_client THEN "openai"
    ELSE IF gemini_model THEN "gemini"
    ELSE IF openai_client THEN "openai"
    ELSE NoProvider

\* generate_object lines 82-87: the backend the call is dispatched to.
Dispatch(prov) == IF prov = "gemini" THEN "gemini" ELSE "openai"

\* AIProvider.generate_object: get_provider's ValueError propagates; the
\* OpenAI path lets the backend's exception propagate, the Gemini path
\* catches it and returns {} (here: empty).
GenerateObject(prov, reply, empty) ==
    IF prov = NoProvider
    THEN [raised |-> TRUE, value |-> empty, backend |-> "none"]
    ELSE IF reply.failed
    THEN IF Dispatch(prov) = "gemini"
         THEN [raised |-> FALSE, value |-> empty, backend |-> "gemini"]
         ELSE [raised |-> TRUE, value |-> empty, backend |-> "openai"]
    ELSE [raised |-> FALSE, value |-> reply.object, backend |-> Dispatch(prov)]

\* ------------------------------------------------------- Query Planner
QueryItems == [hasQuery : BOOLEAN, hasGoal : BOOLEAN]

EmptyPlan == [hasQueries |-> FALSE, queries |-> <<>>]

WellFormed(q) == q.hasQuery /\ q.hasGoal

\* Replies of up to one query more than any breadth asks for, of which at
\* most one item is malformed.
QueryLists ==
    {qs \in SeqsUpTo(QueryItems, MaxBreadth + 1) :
        \A i, j \in 1..Len(qs) : ~WellFormed(qs[i]) /\ ~WellFormed(qs[j]) => i = j}

PlannerObjects == {EmptyPlan} \cup [hasQueries : {TRUE}, queries : QueryLists]

\* generate_serp_queries: result.get("queries", [])[:num_queries], then
\* q["query"] and q["research_goal"] of every kept item (KeyError if absent).
GenerateSerpQueries(prov, reply, num_queries) ==
    LET result == GenerateObject(prov, reply, EmptyPlan)
        got == IF result.value.hasQueries THEN result.value.queries ELSE <<>>
        queries == Take(got, num_queries)
    IN  IF result.raised
        THEN [raised |-> TRUE, value |-> <<>>, offered |-> 0]
        ELSE IF \E i \in 1..Len(queries) :
                    ~queries[i].hasQuery \/ ~queries[i].hasGoal
             THEN [raised |-> TRUE, value |-> <<>>, offered |-> Len(got)]
             ELSE [raised |-> FALSE, value |-> queries, offered |-> Len(got)]

\* ------------------------------------------------------ Result Distiller
EmptyDistill == [hasLearnings |-> FALSE, learnings |-> <<>>]

\* The "learnings" array of a reply: short, or one longer than the
\* num_learnings the prompt asks for (process_serp_result line 61).
LearningLists ==
    SeqsUpTo(LearningPool, MaxLearn) \cup [1..(NumLearnings + 1) -> LearningPool]

DistillObjects ==
    {EmptyDistill} \cup [hasLearnings : {TRUE}, learnings : LearningLists]

\* Search result items: item.get("url") and item.get("markdown") are falsy
\* when the key is absent or empty.
NoUrl == ""

SearchItems == [url : UrlPool \cup {NoUrl}, markdown : BOOLEAN]

\* What firecrawl.search hands back: a dict with a "data" list, or (HTTP 200
\* whose JSON body is not an object) something without .get.
NotDict == [isDict |-> FALSE, data |-> <<>>]

SearchResults ==
    {NotDict} \cup [isDict : {TRUE}, data : SeqsUpTo(SearchItems, MaxResults)]

EmptySearch == [isDict |-> TRUE, data |-> <<>>]

\* process_serp_result lines 67-72: the bodies kept as contents.
Contents(search_result) ==
    {i \in 1..Len(search_result.data) : search_result.data[i].markdown}

\* Mutant: the distiller calls the collaborator whatever the contents.
EarlyReturnNever(search_result) == FALSE

\* process_serp_result lines 76-77: "if not contents: return ...".
EarlyReturn(search_result) == Contents(search_result) = {}

\* What process_serp_result returns at line 77, without a collaborator call.
NoDistill == [raised |-> FALSE, called |-> FALSE, learnings |-> <<>>]

\* process_serp_result: no collaborator call when contents is empty;
\* otherwise result.get("learnings", []) of the generated object.
ProcessSerpResult(prov, search_result, reply) ==
    IF EarlyReturn(search_result)
    THEN NoDistill
    ELSE LET result == GenerateObject(prov, reply, EmptyDistill)
         IN  IF result.raised
             THEN [raised |-> TRUE, called |-> TRUE, learnings |-> <<>>]
             ELSE [raised |-> FALSE, called |-> TRUE,
                   learnings |-> IF result.value.hasLearnings
                                 THEN result.value.learnings ELSE <<>>]

\* Mutant: a URL is recorded whatever the search returned.
NewUrlsFixed(data) == <<"u1">>

\* process_single_query lines 168-171.
RECURSIVE NewUrls(_)
NewUrls(data) ==
    IF data = <<>> THEN <<>>
    ELSE IF Head(data).url # NoUrl
         THEN <<Head(data).url>> \o NewUrls(Tail(data))
         ELSE NewUrls(Tail(data))

\* ---------------------------------------------------- report and answer
\* Text is a sequence of tokens: a line break, the heading of the sources
\* section, the prefix of a bullet, a URL, or any other text.
NL == "\n"
SourcesHeading == "## Sources"
BulletPrefix == "- "
ReportUrlPool == {"u1", "u2"}
Tokens == {NL, SourcesHeading, BulletPrefix, "text"} \cup ReportUrlPool
Texts == SeqsUpTo(Tokens, MaxBody)

\* The object of a reply: {} or one holding the text under the key asked for.
EmptyObject == [present |-> FALSE, text |-> <<>>]
TextObjects == {EmptyObject} \cup [present : {TRUE}, text : Texts]

\* result.get(key, ""): the text, or the empty string.
GetText(result) == IF result.present THEN result.text ELSE <<>>

\* sep.join(parts)
RECURSIVE Join(_, _)
Join(parts, sep) ==
    IF parts = <<>> THEN <<>>
    ELSE IF Len(parts) = 1 THEN parts[1]
    ELSE parts[1] \o <<sep>> \o Join(Tail(parts), sep)

\* f"- {url}"
Bullet(url) == <<BulletPrefix, url>>

\* Mutant: the sources are listed as a set of URLs.
SourcesSectionOfSet(visited_urls) ==
    <<NL, NL, SourcesHeading, NL, NL>> \o
    Join([i \in 1..Cardinality(Range(visited_urls)) |->
            Bullet((CHOOSE l \in ListOfSet(Range(visited_urls)) : TRUE)[i])], NL)

\* write_final_report line 248: the heading and one bullet for each element.
SourcesSection(visited_urls) ==
    <<NL, NL, SourcesHeading, NL, NL>> \o
    Join([i \in 1..Len(visited_urls) |-> Bullet(visited_urls[i])], NL)

\* write_final_report lines 239-250: no exception of the collaborator is
\* handled; the sources follow whatever report came back.
WriteFinalReport(prov, reply, visited_urls) ==
    LET result == GenerateObject(prov, reply, EmptyObject)
    IN  IF result.raised
        THEN [raised |-> TRUE, value |-> <<>>]
        ELSE [raised |-> FALSE,
              value |-> GetText(result.value) \o SourcesSection(visited_urls)]

\* write_final_answer lines 277-283.
WriteFinalAnswer(prov, reply) ==
    LET result == GenerateObject(prov, reply, EmptyObject)
    IN  IF result.raised
        THEN [raised |-> TRUE, value |-> <<>>]
        ELSE [raised |-> FALSE, value |-> GetText(result.value)]

\* --------------------------------------------------------------- state
VARIABLES
    provider,            \* backend AIProvider.get_provider selects
    concurrency_limit,   \* FirecrawlClient.concurrency_limit
    task_logs,           \* throttler: acquisitions not older than one period
    call,                \* deep_research invocations, by path
    branch,              \* process_single_query invocations, by path
    running,             \* the task that owns the event loop ({} when none)
    searchCalls,         \* history: calls of firecrawl.search so far
    found,               \* history: some search returned other than no results
    main,                \* the command-line run (main.py), if there is one
    config,              \* AI_PROVIDER and the clients AIProvider.__init__ made
    writer,              \* a call of write_final_report / write_final_answer
    obtained             \* history: what searches and distillations returned

vars == <<provider, concurrency_limit, task_logs, call, branch, running,
          searchCalls, found, main, config, writer, obtained>>

NoResult == [learnings |-> <<>>, visited_urls |-> <<>>]

\* deep_research called as a library function: main.py does not run.
NotRun == [pc |-> "none", topic |-> FALSE, is_report |-> FALSE, breadth |-> 0,
           depth |-> 0, feedback |-> "no", backend |-> "none"]

\* A frame of deep_research.  `offered' is history: how many queries the
\* collaborator's reply held, kept until the branches are launched.
IdleCall == [pc |-> "idle", breadth |-> 0, depth |-> 0, learnings |-> <<>>,
             visited_urls |-> <<>>, nq |-> 0, offered |-> 0, result |-> NoResult]

\* A frame of process_single_query.  `status' is how the HTTP request of its
\* search ended, kept with search_result until the branch has used it.
IdleBranch == [pc |-> "idle", breadth |-> 0, depth |-> 0, learnings |-> <<>>,
               visited_urls |-> <<>>, search_result |-> EmptySearch,
               status |-> "none", searches |-> 0, result |-> NoResult,
               failed |-> "no"]

\* No report or answer is being written.
NoWriter == [pc |-> "none", kind |-> "none", visited_urls |-> <<>>,
             failed |-> FALSE, output |-> <<>>]

\* The library is used with AI_PROVIDER unset and one key configured.
OneKeyConfigs == {c \in Configs : c.preference = "" /\ c.openai_client # c.gemini_model}

\* Nothing has been returned by any search or distillation.
NoResultSets == [learnings |-> {}, visited_urls |-> {}]

BranchNodes == Nodes \ {Root}

\* The branches asyncio.gather was given by invocation p.
Branches(p) == {Child(p, i) : i \in 1..call[p].nq}

InFlight == {p \in BranchNodes : branch[p].pc = "inflight"}

Init ==
    /\ config \in OneKeyConfigs
    /\ provider = GetProvider(config.preference, config.openai_client, config.gemini_model)
    /\ writer = NoWriter
    /\ obtained = NoResultSets
    /\ concurrency_limit = DefaultConcurrencyLimit
    /\ task_logs = 0
    /\ \E b \in 1..MaxBreadth, d \in 1..MaxDepth,
          ls \in SeqsUpTo(LearningPool, MaxPrior), us \in SeqsUpTo(UrlPool, MaxPrior) :
          /\ b * d + Len(ls) <= MaxWork
          /\ Len(ls) = Len(us)
          /\ call = [p \in Nodes |->
                       IF p = Root
                       THEN [IdleCall EXCEPT !.pc = "plan", !.breadth = b, !.depth = d,
                                             !.learnings = ls, !.visited_urls = us]
                       ELSE IdleCall]
    /\ branch = [p \in BranchNodes |-> IdleBranch]
    /\ running = {Root}
    /\ searchCalls = 0
    /\ found = FALSE
    /\ main = NotRun

\* Mutant: the except clause returns an empty result.
CaughtEmpty(b, stage) ==
    [b EXCEPT !.pc = "done", !.failed = stage, !.search_result = EmptySearch,
              !.status = "none",
              !.result = NoResult]

\* The except clause of process_single_query (lines 209-211): the branch
\* returns the lists it was called with.
Caught(b, stage) ==
    [b EXCEPT !.pc = "done", !.failed = stage, !.search_result = EmptySearch,
              !.status = "none",
              !.result = [learnings |-> b.learnings, visited_urls |-> b.visited_urls]]

\* A frame of deep_research that has returned or raised keeps no locals, and
\* the tasks its gather awaited are released with it.
Gone(c, how) == [IdleCall EXCEPT !.pc = how]

Released == [IdleBranch EXCEPT !.pc = "released"]

\* ------------------------------------------------ deep_research, line 126
Plan(p) ==
    /\ call[p].pc = "plan"
    /\ running = {p}
    /\ \E reply \in BackendReplies(PlannerObjects) :
          LET r == GenerateSerpQueries(provider, reply, call[p].breadth)
          IN  IF r.raised
              THEN /\ running' = {}
                   /\ IF p = Root
                      THEN /\ call' = [call EXCEPT ![p].pc = "raised"]
                           /\ UNCHANGED branch
                      ELSE /\ call' = [call EXCEPT ![p] = Gone(@, "raised")]
                           /\ branch' = [branch EXCEPT ![p] = Caught(@, "recurse")]
              ELSE /\ call' = [call EXCEPT ![p].pc = "launch",
                                            ![p].nq = Len(r.value),
                                            ![p].offered = r.offered]
                   /\ UNCHANGED <<branch, running>>
    /\ UNCHANGED <<main, writer, config, obtained, provider, concurrency_limit, task_logs, searchCalls, found>>

\* deep_research lines 129-134: one coroutine per query, then gather.  With
\* no query, gather() is already done and the await does not suspend.
Launch(p) ==
    /\ call[p].pc = "launch"
    /\ running = {p}
    /\ \A i \in 1..call[p].nq : InDomain(p, i)
    /\ IF call[p].nq = 0
       THEN /\ call' = [call EXCEPT ![p].pc = "merge", ![p].offered = 0]
            /\ UNCHANGED <<branch, running>>
       ELSE /\ call' = [call EXCEPT ![p].pc = "gather", ![p].offered = 0]
            /\ branch' = [q \in BranchNodes |->
                  IF q \in Branches(p)
                  THEN [IdleBranch EXCEPT !.pc = "ready",
                                          !.breadth = call[p].breadth,
                                          !.depth = call[p].depth,
                                          !.learnings = call[p].learnings,
                                          !.visited_urls = call[p].visited_urls]
                  ELSE branch[q]]
            /\ running' = {}
    /\ UNCHANGED <<main, writer, config, obtained, provider, concurrency_limit, task_logs, searchCalls, found>>

\* Mutant: the visited URLs of a result are not folded in.
MergeStepLearningsOnly(acc, result) ==
    [learnings |-> acc.learnings \cup Range(result.learnings),
     visited_urls |-> acc.visited_urls]

\* Mutant: a result replaces the accumulated sets.
MergeStepOverwrite(acc, result) ==
    [learnings |-> Range(result.learnings),
     visited_urls |-> Range(result.visited_urls)]

\* deep_research lines 140-147: one result folded into the accumulating sets.
MergeStep(acc, result) ==
    [learnings |-> acc.learnings \cup Range(result.learnings),
     visited_urls |-> acc.visited_urls \cup Range(result.visited_urls)]

RECURSIVE MergeResults(_, _)
MergeResults(acc, results) ==
    IF results = <<>> THEN acc
    ELSE MergeResults(MergeStep(acc, Head(results)), Tail(results))

\* What the gather of invocation p returns: the branch results in task order.
GatherResults(p) == [i \in 1..call[p].nq |-> branch[Child(p, i)].result]

\* Mutant: the accumulating sets start empty.
PriorSetsEmpty(c) == [learnings |-> {}, visited_urls |-> {}]

\* deep_research lines 137-138.
PriorSets(c) ==
    [learnings |-> Range(c.learnings), visited_urls |-> Range(c.visited_urls)]

\* Mutant: the gather returns with the first branch that completes.
GatherAnyDone(p) == \E q \in Branches(p) : branch[q].pc = "done"

\* asyncio.gather(*tasks, return_exceptions=True), line 134: every task is
\* awaited, whatever the others did.
GatherDone(p) == \A q \in Branches(p) : branch[q].pc = "done"

\* deep_research lines 134-152: the gather completes, the results are merged
\* and returned; a nested invocation's result is its branch's result (196).
Combine(p) ==
    /\ \/ call[p].pc = "merge" /\ running = {p}
       \/ call[p].pc = "gather" /\ running = {} /\ GatherDone(p)
    /\ LET all == MergeResults(PriorSets(call[p]), GatherResults(p))
       IN  \E ls \in ListOfSet(all.learnings), us \in ListOfSet(all.visited_urls) :
              LET res == [learnings |-> ls, visited_urls |-> us]
              IN  IF p = Root
                  THEN /\ call' = [call EXCEPT ![p].pc = "done", ![p].result = res]
                       /\ UNCHANGED branch
                  ELSE /\ call' = [call EXCEPT ![p] = Gone(@, "done")]
                       /\ branch' = [q \in BranchNodes |->
                             IF q = p
                             THEN [branch[p] EXCEPT !.pc = "done", !.result = res]
                             ELSE IF q \in Branches(p) THEN Released ELSE branch[q]]
    /\ running' = {}
    /\ UNCHANGED <<main, writer, config, obtained, provider, concurrency_limit, task_logs, searchCalls, found>>

\* ------------------------------------------- process_single_query, line 165
\* Mutant: a branch may run before its invocation created its task.
ScheduledUnplanned(b) == b.pc \in {"idle", "ready"}

\* The coroutine of the branch was created from a planned query and given
\* to asyncio.gather (deep_research lines 129-134), and has not run yet.
Scheduled(b) == b.pc = "ready"

\* The event loop starts the tasks of one gather in the order they were given.
Start(p) ==
    /\ Scheduled(branch[p])
    /\ running = {}
    /\ \A j \in 1..(p[Len(p)] - 1) : branch[Child(Parent(p), j)].pc # "ready"
    /\ branch' = [branch EXCEPT ![p].pc = "acquire", ![p].searches = @ + 1]
    /\ running' = {p}
    /\ searchCalls' = searchCalls + 1
    /\ UNCHANGED <<main, writer, config, obtained, provider, concurrency_limit, task_logs, call, found>>

\* Throttler.acquire finds rate_limit acquisitions within the period: sleep.
Sleep(p) ==
    /\ branch[p].pc = "acquire"
    /\ running = {p}
    /\ task_logs >= concurrency_limit
    /\ branch' = [branch EXCEPT ![p].pc = "throttled"]
    /\ running' = {}
    /\ UNCHANGED <<main, writer, config, obtained, provider, concurrency_limit, task_logs, call, searchCalls, found>>

\* Throttler.acquire succeeds (at once, or after a sleep), the acquisition is
\* logged and the HTTP request is sent (firecrawl_client.py lines 50-86).
Acquire(p) ==
    /\ \/ branch[p].pc = "acquire" /\ running = {p}
       \/ branch[p].pc = "throttled" /\ running = {}
    /\ task_logs < concurrency_limit
    /\ task_logs' = task_logs + 1
    /\ branch' = [branch EXCEPT ![p].pc = "inflight"]
    /\ running' = {}
    /\ UNCHANGED <<main, writer, config, obtained, provider, concurrency_limit, call, searchCalls, found>>

\* Throttler.flush: an acquisition older than the period leaves the log.
\* Nothing is removed when a request ends (__aexit__ does nothing).
ExpireOldest ==
    /\ task_logs > 0
    /\ task_logs' = task_logs - 1
    /\ UNCHANGED <<main, writer, config, obtained, provider, concurrency_limit, call, branch, running, searchCalls, found>>

HttpKinds == {"200", "status", "timeout", "error"}

\* Mutant: the body is returned whatever the status.
SearchAnyStatus(kind, body) == body

\* FirecrawlClient.search lines 87-103: the body on HTTP 200, {"data": []}
\* on any other status, on timeout and on any exception.
Search(kind, body) == IF kind = "200" THEN body ELSE EmptySearch

\* The request ends: with a response of some status and some body, with a
\* timeout or with an exception (no body then).
Respond(p) ==
    /\ branch[p].pc = "inflight"
    /\ running = {}
    /\ \E kind \in HttpKinds :
          \E body \in IF kind \in {"200", "status"} THEN SearchResults
                                                   ELSE {EmptySearch} :
             /\ branch' = [branch EXCEPT ![p].pc = "process",
                                         ![p].status = kind,
                                         ![p].search_result = Search(kind, body)]
             /\ found' = (found \/ Search(kind, body) # EmptySearch)
             /\ obtained' = [obtained EXCEPT !.visited_urls =
                                @ \cup Range(NewUrls(Search(kind, body).data))]
    /\ running' = {p}
    /\ UNCHANGED <<main, writer, config, provider, concurrency_limit, task_logs, call, searchCalls>>

\* Mutant: the last level but one does not recurse either.
DeeperThanTwo(depth) == depth > 2

\* process_single_query line 184: is there depth left to recurse.
Deeper(depth) == depth > 1

\* Mutant: the breadth is halved without the floor of 1.
NextBreadthHalved(breadth) == breadth \div 2

\* process_single_query line 185.
NextBreadth(breadth) == Max(1, breadth \div 2)

\* Mutant: the depth is passed on without the decrement.
NextDepthSame(depth) == depth

\* process_single_query line 186.
NextDepth(depth) == depth - 1

\* Mutant: the branch extends the list it was given in place (+=, extend).
LeftOperandExtended(list, extra) == list \o extra

\* list + list (lines 180-181) builds a new list; its left operand, the
\* list object the parent handed to all its branches, is as it was.
LeftOperand(list, extra) == list

\* The frame of a holder of the parent's two list objects (the parent
\* itself, or one of its branches) after a branch concatenated to them.
Shared(frame, learnings, new_urls) ==
    [frame EXCEPT !.learnings = LeftOperand(@, learnings),
                  !.visited_urls = LeftOperand(@, new_urls)]

\* process_single_query lines 180-207, once process_serp_result has returned
\* the learnings: recurse when depth is left, else return the extended lists.
Proceed(p, learnings) ==
    LET b == branch[p]
        new_urls == NewUrls(b.search_result.data)
        current_learnings == b.learnings \o learnings
        current_urls == b.visited_urls \o new_urls
        holds(q) == Parent(q) = Parent(p) /\ branch[q].pc \notin {"idle", "released"}
        me == Shared(b, learnings, new_urls)
        others == [q \in BranchNodes |->
                      IF q # p /\ holds(q)
                      THEN Shared(branch[q], learnings, new_urls) ELSE branch[q]]
        parent == Shared(call[Parent(p)], learnings, new_urls)
    IN  IF Deeper(b.depth)
        THEN /\ branch' = [others EXCEPT ![p] =
                             [me EXCEPT !.pc = "recurse",
                                        !.search_result = EmptySearch,
                                        !.status = "none"]]
             /\ call' = [call EXCEPT
                            ![Parent(p)] = parent,
                            ![p] = [IdleCall EXCEPT
                                      !.pc = "plan",
                                      !.breadth = NextBreadth(b.breadth),
                                      !.depth = NextDepth(b.depth),
                                      !.learnings = current_learnings,
                                      !.visited_urls = current_urls]]
             /\ running' = {p}
        ELSE /\ branch' = [others EXCEPT ![p] =
                             [me EXCEPT
                                !.pc = "done",
                                !.search_result = EmptySearch,
                                !.status = "none",
                                !.result = [learnings |-> current_learnings,
                                            visited_urls |-> current_urls]]]
             /\ call' = [call EXCEPT ![Parent(p)] = parent]
             /\ running' = {}

\* process_single_query lines 167-178 and process_serp_result lines 67-98:
\* the URLs and the contents are extracted; without contents the distiller
\* returns at once, otherwise the branch enters generate_object (line 98), a
\* plain function call during which the task keeps the event loop.
Process(p) ==
    /\ branch[p].pc = "process"
    /\ running = {p}
    /\ LET b == branch[p]
       IN  IF ~b.search_result.isDict
           THEN /\ branch' = [branch EXCEPT ![p] = Caught(b, "extract")]
                /\ running' = {}
                /\ UNCHANGED call
           ELSE IF EarlyReturn(b.search_result)
                THEN Proceed(p, NoDistill.learnings)
                ELSE /\ branch' = [branch EXCEPT ![p].pc = "distill",
                                                  ![p].status = "none"]
                     /\ UNCHANGED <<call, running>>
    /\ UNCHANGED <<main, writer, config, obtained, provider, concurrency_limit, task_logs, searchCalls, found>>

\* process_serp_result lines 98-107 and process_single_query lines 180-211:
\* generate_object returns or raises, and the branch goes on.
Distill(p) ==
    /\ branch[p].pc = "distill"
    /\ running = {p}
    /\ \E reply \in BackendReplies(DistillObjects) :
          LET processed == ProcessSerpResult(provider, branch[p].search_result, reply)
          IN  IF processed.raised
              THEN /\ branch' = [branch EXCEPT ![p] = Caught(branch[p], "distill")]
                   /\ running' = {}
                   /\ UNCHANGED <<call, obtained>>
              ELSE /\ Proceed(p, processed.learnings)
                   /\ obtained' = [obtained EXCEPT !.learnings =
                                      @ \cup Range(processed.learnings)]
    /\ UNCHANGED <<main, writer, config, provider, concurrency_limit, task_logs, searchCalls, found>>

Next ==
    \/ \E p \in Nodes : Plan(p)
    \/ \E p \in Nodes : Launch(p)
    \/ \E p \in Nodes : Combine(p)
    \/ \E p \in BranchNodes : Start(p)
    \/ \E p \in BranchNodes : Sleep(p)
    \/ \E p \in BranchNodes : Acquire(p)
    \/ \E p \in BranchNodes : Respond(p)
    \/ \E p \in BranchNodes : Process(p)
    \/ \E p \in BranchNodes : Distill(p)
    \/ ExpireOldest

Spec == Init /\ [][Next]_vars

\* The event loop runs a ready task whenever there is one, every collaborator
\* call returns or fails, and time passes (throttler periods elapse).
LiveSpec == Init /\ [][Next]_vars /\ WF_vars(Next)

\* ------------------------------------------------------------- main.py
\* Mutant: the provider check of main never fails.
AvailableAlways(prov) == TRUE

\* main lines 92-96: ai_provider.get_provider() returns a provider.
Available(prov) == prov # NoProvider

\* The parameters of deep_research (lines 109-115) and the keywords of the
\* call main makes (main.py lines 145-151).
DeepResearchParams == {"query", "breadth", "depth", "learnings", "visited_urls"}

MainKeywords == {"query", "breadth", "depth", "prioritize_recent", "days_back"}

\* A call binds its arguments when every keyword names a parameter of the
\* function (which takes no **kwargs); otherwise the call raises TypeError.
Binds(keywords, params) == keywords \subseteq params

\* What generate_feedback can get back: questions, or none.
FeedbackObjects == {"questions", "none"}

\* A run of main.py: nothing of the research has been called yet.  topic is
\* whether the topic given is non-blank, backend is history: the backend the
\* collaborator call of generate_feedback went to.
MainInit ==
    /\ config \in Configs
    /\ provider = GetProvider(config.preference, config.openai_client, config.gemini_model)
    /\ writer = NoWriter
    /\ obtained = NoResultSets
    /\ concurrency_limit = DefaultConcurrencyLimit
    /\ task_logs = 0
    /\ call = [p \in Nodes |-> IdleCall]
    /\ branch = [p \in BranchNodes |-> IdleBranch]
    /\ running = {}
    /\ searchCalls = 0
    /\ found = FALSE
    /\ \E t \in BOOLEAN, r \in BOOLEAN, b \in 1..MaxBreadth, d \in 1..MaxDepth :
          /\ b * d <= MaxWork
          /\ main = [pc |-> "topic", topic |-> t, is_report |-> r,
                     breadth |-> b, depth |-> d, feedback |-> "no",
                     backend |-> "none"]

\* main lines 38-89: the topic from the command line or from input().
MainTopic ==
    /\ main.pc = "topic"
    /\ main' = [main EXCEPT !.pc = IF main.topic THEN "provider" ELSE "no_topic"]
    /\ UNCHANGED <<writer, config, obtained, provider, concurrency_limit, task_logs, call, branch, running,
                   searchCalls, found>>

\* main lines 91-105: the provider check; on ValueError the configuration
\* error is printed and main returns.
MainProvider ==
    /\ main.pc = "provider"
    /\ main' = [main EXCEPT !.pc =
                   IF Available(provider)
                   THEN IF main.is_report THEN "feedback" ELSE "research"
                   ELSE "config_error"]
    /\ UNCHANGED <<writer, config, obtained, provider, concurrency_limit, task_logs, call, branch, running,
                   searchCalls, found>>

\* main lines 109-133: generate_feedback; its exception is caught and main
\* continues with the original query.
MainFeedback ==
    /\ main.pc = "feedback"
    /\ \E reply \in BackendReplies(FeedbackObjects) :
          LET r == GenerateObject(provider, reply, "none")
          IN  main' = [main EXCEPT !.pc = "research",
                                   !.feedback = IF r.raised THEN "error" ELSE r.value,
                                   !.backend = r.backend]
    /\ UNCHANGED <<writer, config, obtained, provider, concurrency_limit, task_logs, call, branch, running,
                   searchCalls, found>>

\* main lines 143-199: the call of deep_research.  When it does not bind,
\* TypeError is raised before deep_research runs and the handler of line 196
\* prints the error; nothing is rendered, written or printed as a report.
MainResearch ==
    /\ main.pc = "research"
    /\ IF Binds(MainKeywords, DeepResearchParams)
       THEN /\ main' = [main EXCEPT !.pc = "researching"]
            /\ call' = [call EXCEPT ![Root] =
                           [IdleCall EXCEPT !.pc = "plan",
                                            !.breadth = main.breadth,
                                            !.depth = main.depth]]
            /\ running' = {Root}
       ELSE /\ main' = [main EXCEPT !.pc = "error"]
            /\ UNCHANGED <<call, running>>
    /\ UNCHANGED <<writer, config, obtained, provider, concurrency_limit, task_logs, branch, searchCalls, found>>

MainNext ==
    \/ MainTopic
    \/ MainProvider
    \/ MainFeedback
    \/ MainResearch

MainSpec == MainInit /\ [][MainNext]_vars

\* ------------------------------------------------ writing the result
\* write_final_report or write_final_answer called with the result of a
\* research; the learnings only enter the prompt.
ReportInit ==
    /\ config \in OneKeyConfigs
    /\ provider = GetProvider(config.preference, config.openai_client, config.gemini_model)
    /\ concurrency_limit = DefaultConcurrencyLimit
    /\ task_logs = 0
    /\ call = [p \in Nodes |-> IdleCall]
    /\ branch = [p \in BranchNodes |-> IdleBranch]
    /\ running = {}
    /\ searchCalls = 0
    /\ found = FALSE
    /\ main = NotRun
    /\ obtained = NoResultSets
    /\ \/ \E us \in SeqsUpTo(ReportUrlPool, MaxUrls) :
             writer = [NoWriter EXCEPT !.pc = "call", !.kind = "report",
                                       !.visited_urls = us]
       \/ writer = [NoWriter EXCEPT !.pc = "call", !.kind = "answer"]

\* write_final_report, the whole call.
WriteReport ==
    /\ writer.pc = "call"
    /\ writer.kind = "report"
    /\ \E reply \in BackendReplies(TextObjects) :
          LET r == WriteFinalReport(provider, reply, writer.visited_urls)
          IN  writer' = [writer EXCEPT !.pc = IF r.raised THEN "raised" ELSE "returned",
                                       !.failed = reply.failed,
                                       !.output = r.value]
    /\ UNCHANGED <<main, config, obtained, provider, concurrency_limit, task_logs, call,
                   branch, running, searchCalls, found>>

\* write_final_answer, the whole call.
WriteAnswer ==
    /\ writer.pc = "call"
    /\ writer.kind = "answer"
    /\ \E reply \in BackendReplies(TextObjects) :
          LET r == WriteFinalAnswer(provider, reply)
          IN  writer' = [writer EXCEPT !.pc = IF r.raised THEN "raised" ELSE "returned",
                                       !.failed = reply.failed,
                                       !.output = r.value]
    /\ UNCHANGED <<main, config, obtained, provider, concurrency_limit, task_logs, call,
                   branch, running, searchCalls, found>>

ReportNext ==
    \/ WriteReport
    \/ WriteAnswer

ReportSpec == ReportInit /\ [][ReportNext]_vars

\* ================================================================ claims

RootFinished == call[Root].pc \in {"done", "raised"}

RootReturned == call[Root].pc = "done"

\* The value a deep_research invocation hands to its caller: the top-level
\* result, or (line 196) the result of the branch that made the nested call.
ReturnValue(p) == IF p = Root THEN call[p].result ELSE branch[p].result

\* Every invocation that was ever entered lies within the initial depth.
NestingBounded ==
    /\ \A p \in Nodes : call[p].pc # "idle" => Len(p) + 1 <= call[Root].depth
    /\ \A p \in BranchNodes : branch[p].pc # "idle" => Len(p) <= call[Root].depth

RECURSIVE SearchBound(_, _)
SearchBound(b, d) ==
    IF d <= 1 THEN b ELSE b * (1 + SearchBound(Max(1, b \div 2), d - 1))

\* C2: an invocation with breadth b launches at most b branches, every
\* branch calls the search exactly once, a branch recurses with breadth
\* max(1, b div 2), and so the calls of the search in a run of breadth b and
\* depth d number at most SearchBound(b, d), which is 12 for breadth 4 and
\* depth 2.
C2_SearchCallsBounded ==
    /\ \A p \in Nodes : call[p].nq <= call[p].breadth
    /\ \A p \in Nodes : Cardinality({q \in BranchNodes :
            Parent(q) = p /\ branch[q].pc \notin {"idle", "released"}}) <= call[p].breadth
    /\ \A p \in BranchNodes :
          /\ branch[p].searches <= 1
          /\ branch[p].pc \notin {"idle", "ready", "released"} => branch[p].searches = 1
          /\ call[p].pc \in {"plan", "launch", "gather", "merge"} =>
                call[p].breadth = Max(1, branch[p].breadth \div 2)
    /\ searchCalls <= SearchBound(call[Root].breadth, call[Root].depth)
    /\ SearchBound(4, 2) = 12

C2_Witness ==
    /\ RootReturned
    /\ call[Root].breadth >= 2
    /\ call[Root].depth >= 2
    /\ searchCalls = SearchBound(call[Root].breadth, call[Root].depth)

\* The lists a branch was called with, as a result.
Priors(b) == [learnings |-> b.learnings, visited_urls |-> b.visited_urls]

Contains(big, small) ==
    /\ Range(small.learnings) \subseteq Range(big.learnings)
    /\ Range(small.visited_urls) \subseteq Range(big.visited_urls)

C3_FailedBranchKeepsPriors ==
    \A p \in BranchNodes :
        branch[p].failed # "no" =>
            branch[p].pc = "done" /\ branch[p].result = Priors(branch[p])

C3_GatherStep ==
    \A p \in Nodes :
        (call[p].pc = "gather" /\ call'[p].pc # "gather") =>
            /\ call'[p].pc = "done"
            /\ \A q \in Branches(p) : Contains(ReturnValue(p)', branch[q].result)

\* C3: a branch in which an exception occurred (at the URL extraction after
\* its search, in its distillation, or in its recursive deep_research call)
\* returns exactly the learnings and visited URLs it was called with; the
\* enclosing deep_research call then still returns a result, and that result
\* contains the result of every branch of its gather.
C3_BranchFailureContained == []C3_FailedBranchKeepsPriors /\ [][C3_GatherStep]_vars

C3_Witness ==
    /\ RootReturned
    /\ call[Root].learnings # <<>>
    /\ \E q, r \in Branches(Root) :
          /\ branch[q].failed # "no"
          /\ branch[q].result = Priors(branch[q])
          /\ branch[r].failed = "no"
          /\ Len(branch[r].result.visited_urls) > Len(branch[q].result.visited_urls)
          /\ Contains(call[Root].result, branch[r].result)

\* C4 (as claimed): the planner never raises, so no deep_research call ever
\* ends by an exception.
C4_PlannerNeverRaises == \A p \in Nodes : call[p].pc # "raised"

\* "merge" is entered only when the planner returned no query.
C5_UnchangedStep ==
    \A p \in Nodes :
        (call[p].pc = "merge" /\ call'[p].pc # "merge") =>
            ReturnValue(p)' = Priors(call[p])

\* C5 (as claimed): with zero queries deep_research returns the very lists
\* priorLearnings and priorUrls it was called with.
C5_ZeroQueriesUnchanged == [][C5_UnchangedStep]_vars

C5_SameSetsStep ==
    \A p \in Nodes :
        (call[p].pc = "merge" /\ call'[p].pc # "merge") =>
            /\ call'[p].pc = "done"
            /\ Range(ReturnValue(p)'.learnings) = Range(call[p].learnings)
            /\ Range(ReturnValue(p)'.visited_urls) = Range(call[p].visited_urls)
            /\ NoDuplicates(ReturnValue(p)'.learnings)
            /\ NoDuplicates(ReturnValue(p)'.visited_urls)
            /\ searchCalls' = searchCalls
            /\ \A q \in BranchNodes : Parent(q) = p =>
                  branch[q].pc = "idle" /\ branch'[q].pc = "idle"

C5_RootTerminal ==
    (RootReturned /\ call[Root].nq = 0) =>
        /\ searchCalls = 0
        /\ \A q \in BranchNodes : branch[q].pc = "idle"
        /\ \A p \in BranchNodes : call[p].pc = "idle"
        /\ (call[Root].learnings = <<>> /\ call[Root].visited_urls = <<>>) =>
              call[Root].result = NoResult

\* C5 (amended): with zero queries deep_research returns the values of
\* priorLearnings and of priorUrls, each once and in no fixed order, without
\* any search, distillation or recursive call; from empty priors the result
\* is exactly {learnings: [], visitedUrls: []}.
C5_ZeroQueriesSameSets == []C5_RootTerminal /\ [][C5_SameSetsStep]_vars

C5_Witness ==
    /\ RootReturned
    /\ call[Root].nq = 0
    /\ call[Root].learnings # <<>>
    /\ call[Root].result = Priors(call[Root])

C6_UnionStep ==
    \A p \in Nodes :
        (call[p].pc \in {"gather", "merge"} /\ call'[p].pc = "done") =>
            /\ Range(ReturnValue(p)'.learnings) =
                  Range(call[p].learnings) \cup
                  UNION {Range(branch[q].result.learnings) : q \in Branches(p)}
            /\ Range(ReturnValue(p)'.visited_urls) =
                  Range(call[p].visited_urls) \cup
                  UNION {Range(branch[q].result.visited_urls) : q \in Branches(p)}

\* C6: the result of every deep_research call holds, as sets, exactly the
\* prior learnings together with the learnings of every branch result, and
\* the prior URLs together with the visited URLs of every branch result.
C6_ResultIsUnion == [][C6_UnionStep]_vars

C6_Witness ==
    /\ RootReturned
    /\ call[Root].nq >= 2
    /\ call[Root].learnings = <<>>
    /\ \E q, r \in Branches(Root) :
          /\ branch[q].result.learnings = <<>> /\ branch[q].result.visited_urls # <<>>
          /\ branch[r].result.learnings # <<>> /\ branch[r].result.visited_urls = <<>>
    /\ call[Root].result.learnings # <<>>
    /\ call[Root].result.visited_urls # <<>>

\* C7: no string occurs twice in the learnings or in the visited URLs of the
\* result a deep_research call returns (the top-level result, and the result
\* a branch passes on from its recursive call).
C7_NoDuplicates ==
    /\ RootReturned =>
          /\ NoDuplicates(call[Root].result.learnings)
          /\ NoDuplicates(call[Root].result.visited_urls)
    /\ \A p \in BranchNodes :
          (branch[p].pc = "done" /\ branch[p].failed = "no" /\ branch[p].depth > 1) =>
              /\ NoDuplicates(branch[p].result.learnings)
              /\ NoDuplicates(branch[p].result.visited_urls)

C7_Witness ==
    /\ RootReturned
    /\ call[Root].learnings # <<>>
    /\ \E q, r \in Branches(Root) :
          /\ q # r
          /\ ~NoDuplicates(branch[q].result.learnings)
          /\ ~NoDuplicates(branch[r].result.learnings)
          /\ ~NoDuplicates(branch[q].result.visited_urls)
    /\ Len(call[Root].result.learnings) = 1
    /\ Len(call[Root].result.visited_urls) = 1

\* C8: at the join of any deep_research call, folding the branch results
\* into the prior sets gives the same sets for every order of the results,
\* and folding any of the results in once more changes nothing.
C8_MergeOrderIndependent ==
    \A p \in Nodes :
        (call[p].pc = "gather" /\ \A q \in Branches(p) : branch[q].pc = "done") =>
            LET rs == GatherResults(p)
                n == call[p].nq
                final == MergeResults(PriorSets(call[p]), rs)
            IN  /\ \A f \in Permutations(1..n) :
                      MergeResults(PriorSets(call[p]), [i \in 1..n |-> rs[f[i]]]) = final
                /\ \A i \in 1..n : MergeStep(final, rs[i]) = final

C8_Witness ==
    /\ call[Root].pc = "gather"
    /\ call[Root].nq >= 2
    /\ \A q \in Branches(Root) : branch[q].pc = "done"
    /\ \E q, r \in Branches(Root) :
          /\ Range(branch[q].result.learnings) # Range(branch[r].result.learnings)
          /\ Range(branch[q].result.visited_urls) # Range(branch[r].result.visited_urls)

C9_JoinStep ==
    /\ \A p \in Nodes :
          (call[p].pc = "gather" /\ call'[p].pc # "gather") =>
              \A q \in Branches(p) : branch[q].pc = "done"
    /\ \A q \in BranchNodes :
          (branch[q].failed = "no" /\ branch'[q].failed # "no") =>
              /\ call'[Parent(q)] = call[Parent(q)]
              /\ call[Parent(q)].pc = "gather"
              /\ \A r \in Branches(Parent(q)) : r # q => branch'[r] = branch[r]

\* C9: a deep_research call leaves its gather only when every branch it
\* launched has finished, and a branch that fails changes neither a sibling
\* nor its parent.
C9_MergeAfterAllBranches == [][C9_JoinStep]_vars

C9_Witness ==
    /\ call[Root].pc = "gather"
    /\ call[Root].nq >= 2
    /\ \A q \in Branches(Root) : branch[q].pc = "done"
    /\ \E q, r \in Branches(Root) :
          /\ branch[q].failed = "distill"
          /\ branch[r].failed = "no"
          /\ branch[r].result # Priors(branch[r])

\* C10 (as claimed): the search requests in flight never number more than
\* CONCURRENCY_LIMIT.
C10_InFlightWithinLimit == Cardinality(InFlight) <= concurrency_limit

\* Branch p is inside a call of the language-model collaborator: its
\* distiller's (line 98), or the planner's of its recursive call (line 51).
InCollaboratorCall(p) ==
    \/ branch[p].pc = "distill"
    \/ branch[p].pc = "recurse" /\ call[p].pc = "plan"

\* C11 (as claimed): a call of the language-model collaborator is a
\* suspension point, so while a branch is inside one, a sibling whose search
\* response is due can take it and go on.
C11_CollaboratorCallSuspends ==
    \A p, q \in BranchNodes :
        (p # q /\ Parent(p) = Parent(q) /\ InCollaboratorCall(p)
              /\ branch[q].pc = "inflight") =>
            ENABLED Respond(q)

C12_ParentListsStep ==
    /\ \A p \in Nodes :
          (call[p].pc \in {"launch", "gather"} /\ call'[p].pc = "gather") =>
              /\ call'[p].learnings = call[p].learnings
              /\ call'[p].visited_urls = call[p].visited_urls
    /\ call[Root].pc # "plan" =>
          /\ call'[Root].learnings = call[Root].learnings
          /\ call'[Root].visited_urls = call[Root].visited_urls
    /\ \A q \in BranchNodes :
          (branch[q].pc \notin {"idle", "released"}
                 /\ branch'[q].pc \notin {"idle", "released"}) =>
              /\ branch'[q].learnings = branch[q].learnings
              /\ branch'[q].visited_urls = branch[q].visited_urls

C12_BranchesHoldParentLists ==
    \A p \in Nodes : \A q \in Branches(p) :
        (call[p].pc = "gather" /\ branch[q].pc \notin {"idle", "released"}) =>
            /\ branch[q].learnings = call[p].learnings
            /\ branch[q].visited_urls = call[p].visited_urls

\* C12: no step of a branch or of a recursive call changes the learnings or
\* the visited URLs list a deep_research call passed to its branches: from
\* the launch of the branches until the merge the call's two lists keep
\* their values, and so does the copy every branch was called with, while
\* the branches build longer lists of their own.
C12_ParentListsNeverMutated ==
    []C12_BranchesHoldParentLists /\ [][C12_ParentListsStep]_vars

C12_Witness ==
    /\ call[Root].pc = "gather"
    /\ call[Root].learnings # <<>>
    /\ call[Root].visited_urls # <<>>
    /\ \E q, r \in Branches(Root) :
          /\ branch[q].pc = "done" /\ branch[q].failed = "no"
          /\ Len(branch[q].result.learnings) > Len(call[Root].learnings)
          /\ Len(branch[q].result.visited_urls) > Len(call[Root].visited_urls)
          /\ branch[r].pc = "inflight"

\* C13 (as claimed): the distiller hands back at most num_learnings (3)
\* learnings, so the lists a branch goes on with are at most 3 learnings
\* longer than the lists it was called with.
C13_AtMostNumLearnings ==
    \A p \in BranchNodes :
        /\ (branch[p].pc = "done" /\ branch[p].failed = "no" /\ ~Deeper(branch[p].depth)) =>
              Len(branch[p].result.learnings) <= Len(branch[p].learnings) + NumLearnings
        /\ (branch[p].pc = "recurse" /\ call[p].pc = "plan") =>
              Len(call[p].learnings) <= Len(branch[p].learnings) + NumLearnings

\* C14 (as claimed): a failure of the distiller's collaborator call never
\* leaves process_serp_result as an exception, so no branch ever ends in its
\* except clause because of its distillation.
C14_DistillerNeverRaises == \A p \in BranchNodes : branch[p].failed # "distill"

\* Replies whose queries carry a text, so that their order can be seen.
NamedQueryLists ==
    SeqsUpTo([hasQuery : {TRUE}, hasGoal : BOOLEAN, query : {"q1", "q2"}],
             MaxBreadth + 1)

\* For every provider, every reply and every num_queries: when the planner
\* returns, it returns the first min(num_queries, n) of the n queries
\* offered, in their order.
C15_KeepsFirstInOrder ==
    \A prov \in Providers, n \in 0..MaxBreadth, qs \in NamedQueryLists :
        LET reply == [failed |-> FALSE,
                      object |-> [hasQueries |-> TRUE, queries |-> qs]]
            r == GenerateSerpQueries(prov, reply, n)
        IN  ~r.raised =>
               /\ Len(r.value) = Min(n, Len(qs))
               /\ \A i \in 1..Len(r.value) : r.value[i] = qs[i]

\* C15: whenever generate_serp_queries returns, its list holds between 0
\* and num_queries queries: the first num_queries of the collaborator's
\* reply in their order when the reply held more, all of them otherwise.
C15_PlannerTruncates ==
    /\ \A p \in Nodes :
          /\ call[p].nq <= call[p].breadth
          /\ call[p].pc = "launch" =>
                call[p].nq = Min(call[p].breadth, call[p].offered)
    /\ C15_KeepsFirstInOrder

C15_Witness ==
    /\ call[Root].pc = "launch"
    /\ call[Root].breadth >= 2
    /\ call[Root].offered > call[Root].breadth
    /\ call[Root].nq = call[Root].breadth

\* A branch that holds a search of zero results goes on without failing and
\* without distilling, with the very URL list it was called with.
C16_ZeroResultsStep ==
    \A p \in BranchNodes :
        (branch[p].pc = "process" /\ branch[p].search_result = EmptySearch
               /\ branch'[p] # branch[p]) =>
            /\ branch'[p].failed = "no"
            /\ branch'[p].pc \in {"done", "recurse"}
            /\ branch'[p].pc = "done" =>
                  branch'[p].result.visited_urls = branch[p].visited_urls
            /\ branch'[p].pc = "recurse" =>
                  call'[p].visited_urls = branch[p].visited_urls

C16_NothingFound ==
    ~found =>
        /\ \A p \in BranchNodes :
              branch[p].pc = "done" =>
                  /\ branch[p].failed \in {"no", "recurse"}
                  /\ Range(branch[p].result.visited_urls) = Range(branch[p].visited_urls)
        /\ \A p \in Nodes :
              call[p].pc \in {"plan", "launch", "gather", "merge"} =>
                  call[p].visited_urls = call[Root].visited_urls
        /\ RootReturned =>
              Range(call[Root].result.visited_urls) = Range(call[Root].visited_urls)
        /\ searchCalls >= 1 => call[Root].pc # "raised"

C17_SearchReturned ==
    \A p \in BranchNodes :
        branch[p].pc = "process" =>
            /\ branch[p].status \in HttpKinds
            /\ branch[p].failed = "no"
            /\ branch[p].status # "200" => branch[p].search_result = EmptySearch

C17_SearchStep ==
    \A p \in BranchNodes :
        /\ (branch[p].pc = "inflight" /\ branch'[p].pc # "inflight") =>
              /\ branch'[p].pc = "process"
              /\ call' = call
              /\ \A q \in BranchNodes : q # p => branch'[q] = branch[q]
        /\ (branch[p].pc = "process" /\ branch[p].status # "200"
                 /\ branch'[p] # branch[p]) =>
              /\ branch'[p].failed = "no"
              /\ branch'[p].pc \in {"done", "recurse"}
              /\ branch'[p].pc = "done" => branch'[p].result = Priors(branch[p])
              /\ \A q \in BranchNodes : q # p => branch'[q] = branch[q]

\* C17: however the HTTP request of a search ends, firecrawl.search returns
\* to the branch that called it; on a timeout, a status other than 200 or an
\* exception it returns {"data": []}, and the branch then goes on as with a
\* search of no results (no failure, no distillation, nothing added), while
\* no sibling and no deep_research frame is touched.
C17_SearchNeverRaises == []C17_SearchReturned /\ [][C17_SearchStep]_vars

C17_Witness ==
    \E p, q, r \in Branches(Root) :
        /\ branch[p].pc = "done" /\ branch[p].failed = "no"
        /\ branch[p].result = Priors(branch[p])
        /\ branch[q].pc = "process" /\ branch[q].status = "timeout"
        /\ branch[q].search_result = EmptySearch
        /\ branch[r].pc = "inflight"

\* For every provider and every reply the collaborator could give: a search
\* result without contents is answered with no learnings, without a call.
C18_NoCallWithoutContents ==
    \A prov \in Providers, search_result \in SearchResults \ {NotDict},
       reply \in BackendReplies(DistillObjects) :
        Contents(search_result) = {} =>
            LET processed == ProcessSerpResult(prov, search_result, reply)
            IN  ~processed.called /\ ~processed.raised /\ processed.learnings = <<>>

C18_InCallOnlyWithContents ==
    \A p \in BranchNodes :
        branch[p].pc = "distill" => Contents(branch[p].search_result) # {}

C18_NoContentsStep ==
    \A p \in BranchNodes :
        (branch[p].pc = "process" /\ branch[p].search_result.isDict
               /\ Contents(branch[p].search_result) = {}
               /\ branch'[p] # branch[p]) =>
            /\ branch'[p].pc \in {"done", "recurse"}
            /\ branch'[p].failed = "no"
            /\ branch'[p].pc = "done" =>
                  branch'[p].result.learnings = branch[p].learnings
            /\ branch'[p].pc = "recurse" =>
                  call'[p].learnings = branch[p].learnings

\* C18: when no item of the search result has markdown, process_serp_result
\* returns no learnings at once: the branch never enters the collaborator
\* call for that distillation, cannot fail in it, and goes on with exactly
\* the learnings it was called with.
C18_EmptyContentsSkipDistill ==
    /\ []C18_InCallOnlyWithContents
    /\ []C18_NoCallWithoutContents
    /\ [][C18_NoContentsStep]_vars

C18_Witness ==
    \E p, q \in Branches(Root) :
        /\ branch[p].pc = "done" /\ branch[p].failed = "no"
        /\ ~Deeper(branch[p].depth)
        /\ Len(branch[p].result.visited_urls) > Len(branch[p].visited_urls)
        /\ branch[p].result.learnings = branch[p].learnings
        /\ branch[q].pc = "process" /\ branch[q].search_result.isDict
        /\ branch[q].search_result.data # <<>>
        /\ Contents(branch[q].search_result) = {}

\* C19 (as claimed): a command-line run with a provider configured and a
\* non-blank topic, once past its deep_research call, has invoked
\* deep_research with the breadth and the depth chosen.
C19_CliInvokesResearch ==
    (main.pc \in {"researching", "error"} /\ main.topic /\ provider # NoProvider) =>
        /\ call[Root].pc # "idle"
        /\ call[Root].breadth = main.breadth
        /\ call[Root].depth = main.depth

C20_NothingInvoked ==
    (main.pc # "none" /\ provider = NoProvider) =>
        /\ main.pc \in {"topic", "no_topic", "provider", "config_error"}
        /\ main.feedback = "no"
        /\ \A p \in Nodes : call[p].pc = "idle"
        /\ \A p \in BranchNodes : branch[p].pc = "idle"
        /\ searchCalls = 0

C20_Returned ==
    main.pc = "config_error" => (provider = NoProvider /\ ~ENABLED MainNext)

C20_ProviderStep ==
    (main.pc = "provider" /\ provider = NoProvider /\ main' # main) =>
        main'.pc = "config_error"

\* C20: with no provider credentials a command-line run that has a topic
\* goes from the provider check to the configuration error and returns
\* there: it never calls generate_feedback, deep_research or a search, and
\* no later step exists in which an output file could be written.
C20_NoCredentialsNoResearch ==
    []C20_NothingInvoked /\ []C20_Returned /\ [][C20_ProviderStep]_vars

C20_Witness ==
    /\ main.pc = "config_error"
    /\ main.topic
    /\ main.is_report
    /\ provider = NoProvider

\* ---------------------------------------------------------------- C21
\* The position of the last sources heading of a text, 0 when it has none.
LastHeading(text) ==
    LET at == {i \in 1..Len(text) : text[i] = SourcesHeading}
    IN  IF at = {} THEN 0 ELSE CHOOSE i \in at : \A j \in at : j <= i

\* Reads lines that are bullets, one URL each, up to the end of the text.
RECURSIVE BulletLines(_)
BulletLines(text) ==
    IF text = <<>> THEN [ok |-> TRUE, urls |-> <<>>]
    ELSE IF Len(text) = 2 /\ text[1] = BulletPrefix /\ text[2] \in ReportUrlPool
    THEN [ok |-> TRUE, urls |-> <<text[2]>>]
    ELSE IF Len(text) >= 5 /\ text[1] = BulletPrefix /\ text[2] \in ReportUrlPool
            /\ text[3] = NL
    THEN LET rest == BulletLines(SubSeq(text, 4, Len(text)))
         IN  [ok |-> rest.ok /\ rest.urls # <<>>, urls |-> <<text[2]>> \o rest.urls]
    ELSE [ok |-> FALSE, urls |-> <<>>]

\* C21: whatever report body the collaborator returned, the text
\* write_final_report returns ends with a sources section: its last heading
\* "## Sources" stands on a line of its own after a blank line, and what
\* follows it is a blank line and then one bullet per element of
\* visited_urls, in the order supplied (so each URL of a list without
\* repeats exactly once), the last bullet ending the text.
C21_ReportEndsWithSources ==
    (writer.kind = "report" /\ writer.pc = "returned") =>
        LET out == writer.output
            k == LastHeading(out)
            listed == BulletLines(SubSeq(out, k + 3, Len(out)))
        IN  /\ k >= 3
            /\ out[k - 1] = NL /\ out[k - 2] = NL
            /\ Len(out) >= k + 2
            /\ out[k + 1] = NL /\ out[k + 2] = NL
            /\ listed.ok
            /\ listed.urls = writer.visited_urls
            /\ NoDuplicates(writer.visited_urls) =>
                  \A u \in Range(writer.visited_urls) :
                     Cardinality({i \in 1..Len(listed.urls) : listed.urls[i] = u}) = 1

\* A report whose body itself begins with a sources heading, for two URLs
\* given in the order u2, u1.
C21_Witness ==
    /\ writer.kind = "report" /\ writer.pc = "returned"
    /\ writer.visited_urls = <<"u2", "u1">>
    /\ ~writer.failed
    /\ Len(writer.output) = 5 + 5 + 2
    /\ writer.output[1] = SourcesHeading
    /\ writer.output[2] = BulletPrefix

\* ---------------------------------------------------------------- C22
\* C22: when the collaborator call of write_final_report or
\* write_final_answer fails, the function returns the empty string and does
\* not raise.
C22_FailureGivesEmptyString ==
    (writer.pc \in {"returned", "raised"} /\ writer.failed) =>
        (writer.pc = "returned" /\ writer.output = <<>>)

\* ---------------------------------------------------------------- C23
\* An invocation of deep_research that is running.
Active(p) == call[p].pc \in {"plan", "launch", "gather", "merge"}

\* A step in which branch p, without an exception, gets past line 184.
C23_PastDistillation(p) ==
    /\ branch[p].pc \in {"process", "distill"}
    /\ branch'[p].pc \in {"recurse", "done"}
    /\ branch'[p].failed = "no"

C23_RecursionStep ==
    \A p \in BranchNodes :
       LET b == branch[p]
           half == b.breadth \div 2
       IN  /\ C23_PastDistillation(p) =>
                /\ (branch'[p].pc = "recurse") <=> (b.depth > 1)
                /\ (branch'[p].pc = "recurse") <=> (~Active(p) /\ Active(p)')
                /\ branch'[p].pc = "recurse" =>
                      /\ call'[p].pc = "plan"
                      /\ call'[p].breadth = (IF half >= 1 THEN half ELSE 1)
                      /\ call'[p].depth = b.depth - 1
                /\ branch'[p].pc = "done" =>
                      /\ b.depth = 1
                      /\ Len(branch'[p].result.learnings) >= Len(b.learnings)
                      /\ SubSeq(branch'[p].result.learnings, 1, Len(b.learnings))
                            = b.learnings
                      /\ branch'[p].result.visited_urls
                            = b.visited_urls \o NewUrls(b.search_result.data)
           /\ (~Active(p) /\ Active(p)') =>
                 (C23_PastDistillation(p) /\ b.depth > 1)

C23_PositiveParameters ==
    \A p \in Nodes : Active(p) => (call[p].breadth >= 1 /\ call[p].depth >= 1)

\* C23: a branch that gets past its distillation makes the recursive call
\* exactly when its depth is greater than 1, with breadth max(1, breadth
\* div 2) and depth - 1, and no invocation is made otherwise; every running
\* invocation has breadth >= 1 and depth >= 1; a branch of depth 1 returns
\* the lists it was given followed by what it found.
C23_RecursionIffDepthLeft ==
    [](C23_PositiveParameters) /\ [][C23_RecursionStep]_vars

\* A branch of breadth 1 and depth 2 has recursed with breadth 1, and the
\* branch of that invocation, of depth 1, has returned what it found.
C23_Witness ==
    /\ call[Root].breadth = 1 /\ call[Root].depth = 2
    /\ branch[<<1>>].pc = "recurse"
    /\ call[<<1>>].breadth = 1 /\ call[<<1>>].depth = 1
    /\ branch[<<1, 1>>].pc = "done" /\ branch[<<1, 1>>].failed = "no"
    /\ branch[<<1, 1>>].result.visited_urls # <<>>

\* ---------------------------------------------------------------- C24
C24_SequentialStep ==
    \A p \in BranchNodes :
       LET b == branch[p]
       IN  \* the search starts: the planner of the invocation has returned
           /\ (b.pc # "acquire" /\ branch'[p].pc = "acquire") =>
                 (call[Parent(p)].pc = "gather" /\ b.searches = 0)
           \* the search returns: it had been started
           /\ (b.pc # "process" /\ branch'[p].pc = "process") =>
                 (b.pc = "inflight" /\ b.status = "none" /\ branch'[p].status # "none")
           \* the distiller is called: the search has returned
           /\ (b.pc # "distill" /\ branch'[p].pc = "distill") => b.pc = "process"
           \* the recursive call starts: the distiller has returned, in this
           \* step, with or without a collaborator call
           /\ (~Active(p) /\ Active(p)') =>
                 /\ b.pc \in {"process", "distill"}
                 /\ b.searches = 1
                 /\ branch'[p].pc = "recurse"

C24_SequentialState ==
    /\ \A p \in Nodes : call[p].pc \in {"plan", "launch"} =>
          \A q \in BranchNodes : Parent(q) = p =>
             (branch[q].pc = "idle" /\ branch[q].searches = 0)
    /\ \A p \in BranchNodes :
          /\ branch[p].pc \in {"process", "distill", "recurse"} => branch[p].searches = 1
          /\ branch[p].pc \in {"idle", "ready"} => branch[p].searches = 0
          /\ Active(p) <=> branch[p].pc = "recurse"

\* C24: in a branch the distiller is called only once the search of that
\* branch has returned and the recursive research call starts only once its
\* distillation has returned; no branch of an invocation starts its search
\* before the planner call of that invocation has returned.
C24_StrictlySequential ==
    [](C24_SequentialState) /\ [][C24_SequentialStep]_vars

\* A branch has searched, distilled and recursed, and a branch of the nested
\* invocation, which has planned, is inside its own distillation.
C24_Witness ==
    /\ branch[<<1>>].pc = "recurse" /\ branch[<<1>>].searches = 1
    /\ call[<<1>>].pc = "gather"
    /\ branch[<<1, 1>>].pc = "distill" /\ branch[<<1, 1>>].searches = 1
    /\ Len(call[<<1>>].learnings) > Len(call[Root].learnings)

\* ---------------------------------------------------------------- C25
\* C25: when the top-level research call has returned, its result holds
\* every learning a distillation returned and every URL a search returned,
\* at any level of the tree, whatever failed later in the same branch.
C25_PartialResultsPreserved ==
    RootReturned =>
        /\ obtained.learnings \subseteq Range(call[Root].result.learnings)
        /\ obtained.visited_urls \subseteq Range(call[Root].result.visited_urls)

\* ---------------------------------------------------------------- C26
\* Branch p goes on to the nested invocation with the lists it was given.
C26_RecursesEmptyHanded(p) ==
    /\ branch'[p].pc = "recurse"
    /\ call'[p].pc = "plan"
    /\ call'[p].learnings = branch[p].learnings
    /\ call'[p].visited_urls = branch[p].visited_urls
    /\ running' = {p}

C26_EmptyStep ==
    \A p \in BranchNodes :
       LET b == branch[p]
       IN  \* the search returned no results: no distiller call, no exception
           /\ (b.pc = "process" /\ b.depth > 1 /\ b.search_result = EmptySearch
                 /\ branch'[p] # b) => C26_RecursesEmptyHanded(p)
           \* the distillation returned, and returned no learnings
           /\ (b.pc = "distill" /\ b.depth > 1 /\ branch'[p].pc # "distill"
                 /\ branch'[p].failed = "no"
                 /\ NewUrls(b.search_result.data) = <<>>
                 /\ obtained'.learnings = obtained.learnings
                 /\ obtained.learnings = {}) => C26_RecursesEmptyHanded(p)

\* The planner call of an invocation is the next thing that happens in it.
C26_PlannerCalled ==
    \A p \in Nodes : call[p].pc = "plan" => (running = {p} /\ ENABLED Plan(p))

\* C26: a branch with depth > 1 whose search returned no results, or whose
\* distillation returned no learnings, makes its recursive research call
\* all the same, with the lists it was given, and the planner of the nested
\* invocation is called.
C26_RecursesWithoutResults ==
    [](C26_PlannerCalled) /\ [][C26_EmptyStep]_vars

\* Nothing was found by the only search so far, and the nested invocation of
\* its branch has planned its queries.
C26_Witness ==
    /\ call[Root].depth = 2
    /\ searchCalls = 1
    /\ ~found
    /\ obtained = NoResultSets
    /\ branch[<<1>>].pc = "recurse"
    /\ call[<<1>>].pc = "launch" /\ call[<<1>>].nq >= 1
    /\ call[<<1>>].learnings = call[Root].learnings
    /\ call[<<1>>].visited_urls = call[Root].visited_urls

\* ---------------------------------------------------------------- C27
\* C27: the provider get_provider selects is determined by the preference
\* and the initialised clients: the preferred provider when its client is
\* initialised, otherwise gemini when the Gemini client is initialised,
\* otherwise openai when the OpenAI client is, and the configuration error
\* exactly when neither is; a call of generate_object goes to the backend of
\* the provider selected.
C27_ProviderSelection ==
    LET preferred_there ==
            \/ config.preference = "gemini" /\ config.gemini_model
            \/ config.preference = "openai" /\ config.openai_client
    IN  /\ preferred_there => provider = config.preference
        /\ (~preferred_there /\ config.gemini_model) => provider = "gemini"
        /\ (~preferred_there /\ ~config.gemini_model /\ config.openai_client)
              => provider = "openai"
        /\ (provider = NoProvider) <=> (~config.gemini_model /\ ~config.openai_client)
        /\ main.pc = "config_error" => (~config.gemini_model /\ ~config.openai_client)
        /\ main.pc \in {"feedback", "research", "error"} => provider \in Providers
        /\ main.backend # "none" => main.backend = provider

\* Both clients are initialised and OpenAI is preferred: the feedback call
\* went to OpenAI, not to the Gemini backend auto-detection would take.
C27_Witness ==
    /\ config = [preference |-> "openai", openai_client |-> TRUE, gemini_model |-> TRUE]
    /\ provider = "openai"
    /\ main.pc = "research"
    /\ main.backend = "openai"

====
